---- MODULE Spec2Model ----
(***************************************************************************)
(* billyfs: the adapter from absfs.SymlinkFileSystem to billy.Filesystem.  *)
(*                                                                         *)
(* The model has three layers:                                             *)
(*   - the source filesystem (a tree of directories and plain files),      *)
(*   - the basefs path-isolation wrappers stacked over it,                 *)
(*   - the billyfs Filesystem adapters and the handles they hand out.      *)
(*                                                                         *)
(* Four specifications share these layers:                                *)
(*   - Spec: one caller, one call at a time, on the Filesystem methods;    *)
(*   - SpecName: the same caller on NewFS, TempFile and randSeq alone;     *)
(*   - SpecTemp: concurrent callers of TempFile, step by step;             *)
(*   - SpecFile: concurrent callers of the methods of File.                *)
(*                                                                         *)
(* A path string is a record [abs, segs]: abs says whether the string      *)
(* starts with the separator, segs are its segments, each a name or "..".  *)
(* The empty string is [abs |-> FALSE, segs |-> <<>>], "/" is              *)
(* [abs |-> TRUE, segs |-> <<>>].  A location of the source tree is the    *)
(* sequence of names leading to it from the source root.                   *)
(***************************************************************************)
EXTENDS Integers, Sequences, FiniteSets, TLC

VARIABLES
    dirs,       \* source filesystem: the locations that are directories
    files,      \* source filesystem: the locations that are plain files
    adapters,   \* the Filesystem values constructed so far
    content,    \* source filesystem: the bytes of each plain file, each with its writer
    handles,    \* inner handles the adapter layer has opened and not closed itself
    ret,        \* the call that has just returned: its arguments and results
    once,       \* the package's sync.Once
    rng,        \* the package's *rand.Rand: the source it points to, who is inside it
    pc,         \* where each concurrent caller of TempFile is
    buf,        \* randSeq's b of each concurrent caller
    made,       \* the file each concurrent caller of TempFile has created
    mu,         \* the sync.Mutex of each File
    holds,      \* the Files whose Lock has returned to each caller and which it has not unlocked
    inner,      \* the inner handle of each File
    size,       \* the length of the file the Files are opened on
    fret        \* the File call that has just returned

fsVars == <<dirs, files, content, adapters, handles, ret>>
tempVars == <<once, rng, pc, buf, made>>
fileVars == <<mu, holds, inner, size, fret>>
vars == <<fsVars, tempVars, fileVars>>

----------------------------------------------------------------------------
(* Bounds of the model.                                                    *)

MaxSegs     == 2   \* longest path string given to a file operation, in segments
MaxDirSegs  == 1   \* longest path string given to NewFS, Chroot, TempFile
MaxAdapters == 2   \* Filesystem values constructed in one run
MaxHandles  == 1   \* handles handed out in one run (each Create makes one)
MaxRunes    == 2   \* longest string asked of randSeq on its own
MaxCallers  == 2   \* concurrent callers
MaxFiles    == 2   \* File values, all opened on one path
MaxSize     == 2   \* longest the file of the File values grows, in bytes
MaxOpen     == 2   \* handles handed out in one run of reading and writing
MaxBytes    == 2   \* longest a file grows by writing, in bytes

----------------------------------------------------------------------------
(* Path strings: path/filepath on a slash-separated platform.              *)

Names == {"d", "p", "q", "t", "x"}
DotDot == ".."
Segs == Names \cup {DotDot}

SeqsUpTo(S, n) == UNION {[1..k -> S] : k \in 0..n}

PathStrings(n) == [abs : BOOLEAN, segs : SeqsUpTo(Segs, n)]

EmptyPath == [abs |-> FALSE, segs |-> <<>>]
Separator == [abs |-> TRUE, segs |-> <<>>]
Abs(names) == [abs |-> TRUE, segs |-> names]

Last(s) == s[Len(s)]
Front(s) == SubSeq(s, 1, Len(s) - 1)

\* filepath.IsAbs
IsAbs(p) == p.abs

\* The segment pass of path.Clean: ".." removes the segment before it; at the
\* start of a rooted path it is dropped, at the start of a relative one kept.
RECURSIVE CleanSegs(_, _, _)
CleanSegs(abs, done, rest) ==
    IF rest = <<>> THEN done
    ELSE IF rest[1] = DotDot
         THEN IF done # <<>> /\ Last(done) # DotDot
              THEN CleanSegs(abs, Front(done), Tail(rest))
              ELSE IF abs THEN CleanSegs(abs, done, Tail(rest))
                          ELSE CleanSegs(abs, Append(done, DotDot), Tail(rest))
         ELSE CleanSegs(abs, Append(done, rest[1]), Tail(rest))

\* filepath.Clean
Clean(p) == [abs |-> p.abs, segs |-> CleanSegs(p.abs, <<>>, p.segs)]

\* filepath.Join of two elements: an empty element is ignored, the rest is
\* joined with a separator and cleaned.
Join(a, b) ==
    IF a = EmptyPath THEN Clean(b)
    ELSE IF b = EmptyPath THEN Clean(a)
    ELSE Clean([abs |-> a.abs, segs |-> a.segs \o b.segs])

\* strings.HasPrefix on whole segments: location l lies in the tree under root.
IsUnder(l, root) ==
    /\ Len(l) >= Len(root)
    /\ SubSeq(l, 1, Len(root)) = root

HasDots(p) == \E k \in DOMAIN p.segs : p.segs[k] = DotDot

----------------------------------------------------------------------------
(* Error values.                                                           *)

NoErr        == "nil"
ErrInvalid   == "os.ErrInvalid"
ErrNotAbs    == "not an absolute path"
ErrNotDir    == "not a directory"
ErrNotExist  == "os.ErrNotExist"
ErrIsDir     == "is a directory"
ErrOutside   == "path outside base"
ErrClosed    == "os.ErrClosed"
ErrExist     == "os.ErrExist"
ErrIO        == "input/output error"
Panic        == "panic: nil pointer dereference"

----------------------------------------------------------------------------
(* The source filesystem (the absfs.SymlinkFileSystem given to NewFS).     *)

Root0 == <<>>

Kind(loc) == IF loc \in dirs THEN "dir" ELSE IF loc \in files THEN "file" ELSE "none"

\* The location an absolute path string names: each segment is followed from
\* the location reached so far, which has to be a directory.
RECURSIVE Walk(_, _)
Walk(cur, rest) ==
    IF rest = <<>> THEN [err |-> NoErr, loc |-> cur]
    ELSE IF cur \notin dirs
         THEN [err |-> IF cur \in files THEN ErrNotDir ELSE ErrNotExist, loc |-> cur]
         ELSE IF rest[1] = DotDot
              THEN Walk(IF cur = Root0 THEN cur ELSE Front(cur), Tail(rest))
              ELSE Walk(Append(cur, rest[1]), Tail(rest))

StatAt(w) ==
    IF w.err # NoErr THEN [err |-> w.err, loc |-> w.loc, kind |-> "none"]
    ELSE IF Kind(w.loc) = "none" THEN [err |-> ErrNotExist, loc |-> w.loc, kind |-> "none"]
    ELSE [err |-> NoErr, loc |-> w.loc, kind |-> Kind(w.loc)]

\* sourceFS.Stat, and sourceFS.Open of an existing file or directory.
SrcStat(p) == StatAt(Walk(Root0, p.segs))

CreateAt(w) ==
    IF w.err # NoErr THEN [err |-> w.err, loc |-> w.loc]
    ELSE IF w.loc \in dirs THEN [err |-> ErrIsDir, loc |-> w.loc]
    ELSE IF Front(w.loc) \notin dirs
         THEN [err |-> IF Front(w.loc) \in files THEN ErrNotDir ELSE ErrNotExist, loc |-> w.loc]
    ELSE [err |-> NoErr, loc |-> w.loc]

\* sourceFS.Create: the parent has to be a directory and the location must
\* not be one; the file is created, or truncated when it exists.
SrcCreate(p) == CreateAt(Walk(Root0, p.segs))

\* The flags of OpenFile are a set of names: one of O_RDONLY, O_WRONLY,
\* O_RDWR, and any of O_CREATE, O_EXCL, O_TRUNC.
Access(flag) == IF "O_RDWR" \in flag THEN "rw" ELSE IF "O_WRONLY" \in flag THEN "w" ELSE "r"

\* made says that the call creates the file, trunc that it empties a file
\* that exists.
OpenFileAt(w, flag) ==
    IF w.err # NoErr THEN [err |-> w.err, loc |-> w.loc, made |-> FALSE, trunc |-> FALSE]
    ELSE IF Kind(w.loc) # "none" /\ {"O_CREATE", "O_EXCL"} \subseteq flag
    THEN [err |-> ErrExist, loc |-> w.loc, made |-> FALSE, trunc |-> FALSE]
    ELSE IF w.loc \in dirs
    THEN [err |-> IF Access(flag) = "r" THEN NoErr ELSE ErrIsDir, loc |-> w.loc,
          made |-> FALSE, trunc |-> FALSE]
    ELSE IF w.loc \in files
    THEN [err |-> NoErr, loc |-> w.loc, made |-> FALSE,
          trunc |-> "O_TRUNC" \in flag /\ Access(flag) # "r"]
    ELSE IF "O_CREATE" \notin flag
    THEN [err |-> ErrNotExist, loc |-> w.loc, made |-> FALSE, trunc |-> FALSE]
    ELSE IF Front(w.loc) \notin dirs
    THEN [err |-> IF Front(w.loc) \in files THEN ErrNotDir ELSE ErrNotExist, loc |-> w.loc,
          made |-> FALSE, trunc |-> FALSE]
    ELSE [err |-> NoErr, loc |-> w.loc, made |-> TRUE, trunc |-> FALSE]

\* sourceFS.OpenFile: one call, which tests for the file and creates it in
\* one step.
SrcOpenFile(p, flag) == OpenFileAt(Walk(Root0, p.segs), flag)

\* sourceFS.TempDir
TempDir == Abs(<<"t">>)

\* The direct children of a directory.
Children(loc) == {l \in dirs \cup files : Len(l) = Len(loc) + 1 /\ IsUnder(l, loc)}

----------------------------------------------------------------------------
(* basefs: the path-isolation wrapper.  A filesystem value is               *)
(* [nil, chain]: nil is the nil interface value, chain the prefixes of the  *)
(* wrappers stacked over the source filesystem, the innermost first.        *)

NilFS == [nil |-> TRUE, chain |-> <<>>]
SourceFS == [nil |-> FALSE, chain |-> <<>>]

\* The working directory of a wrapper is always the separator.
Cwd == Separator

Confine(prefix, p) ==
    IF IsUnder(p.segs, Clean(prefix).segs)
    THEN [err |-> NoErr, path |-> p]
    ELSE [err |-> ErrOutside, path |-> p]

\* One wrapper: a relative name is joined to the working directory, the
\* result to the prefix; a path that leaves the prefix is rejected.
Wrap(prefix, name) ==
    Confine(prefix, Join(prefix, IF IsAbs(name) THEN name ELSE Join(Cwd, name)))

\* The path string that reaches the source filesystem through all wrappers,
\* the outermost first.
RECURSIVE Through(_, _)
Inward(chain, w) == IF w.err # NoErr THEN w ELSE Through(chain, w.path)

Through(chain, name) ==
    IF chain = <<>> THEN [err |-> NoErr, path |-> name]
    ELSE Inward(Front(chain), Wrap(Last(chain), name))

StatVia(t) ==
    IF t.err # NoErr THEN [err |-> t.err, loc |-> <<>>, kind |-> "none"]
    ELSE SrcStat(t.path)

CreateVia(t) ==
    IF t.err # NoErr THEN [err |-> t.err, loc |-> <<>>]
    ELSE SrcCreate(t.path)

\* fs.Stat, fs.Open, fs.Create on a (wrapped) filesystem value.
FsStat(fs, name) == StatVia(Through(fs.chain, name))
FsOpen(fs, name) == StatVia(Through(fs.chain, name))
FsCreate(fs, name) == CreateVia(Through(fs.chain, name))

OpenFileVia(t, flag) ==
    IF t.err # NoErr THEN [err |-> t.err, loc |-> <<>>, made |-> FALSE, trunc |-> FALSE]
    ELSE SrcOpenFile(t.path, flag)

FsOpenFile(fs, name, flag) == OpenFileVia(Through(fs.chain, name), flag)

Rooted(fs, dir, info) ==
    IF info.err # NoErr THEN [err |-> info.err, fs |-> NilFS, calls |-> <<"Stat">>]
    ELSE IF info.kind # "dir" THEN [err |-> ErrNotDir, fs |-> NilFS, calls |-> <<"Stat">>]
    ELSE [err |-> NoErr, fs |-> [nil |-> FALSE, chain |-> Append(fs.chain, dir)],
          calls |-> <<"Stat">>]

\* basefs.NewFS
BasefsNewFS(fs, dir) ==
    IF dir = EmptyPath THEN [err |-> ErrInvalid, fs |-> NilFS, calls |-> <<>>]
    ELSE IF ~IsAbs(dir) THEN [err |-> ErrNotAbs, fs |-> NilFS, calls |-> <<>>]
    ELSE IF fs.nil THEN [err |-> Panic, fs |-> NilFS, calls |-> <<>>]
    ELSE Rooted(fs, dir, FsStat(fs, dir))

\* basefs.Prefix: the prefix of the outermost wrapper, "" for anything else.
BasefsPrefix(fs) == IF fs.nil \/ fs.chain = <<>> THEN EmptyPath ELSE Last(fs.chain)

----------------------------------------------------------------------------
(* billyfs.Filesystem: what each method computes.                          *)

\* A NewFS whose failure paths return an empty, non-nil *Filesystem beside the
\* error (what Chroot does), instead of nil.
NewFSFail_NonNil(err, calls) ==
    [err |-> err, nilptr |-> FALSE, fs |-> NilFS, calls |-> calls]

\* NewFS: nilptr says that the returned *Filesystem is nil.
NewFSFail(err, calls) == [err |-> err, nilptr |-> TRUE, fs |-> NilFS, calls |-> calls]

\* A NewFS that validates dir and then keeps the source filesystem itself,
\* without the basefs wrapper.
NewFSWrapped_Bare(b) ==
    IF b.err # NoErr THEN NewFSFail(b.err, <<"Stat">> \o b.calls)
    ELSE [err |-> NoErr, nilptr |-> FALSE, fs |-> SourceFS, calls |-> <<"Stat">> \o b.calls]

NewFSWrapped(b) ==
    IF b.err # NoErr THEN NewFSFail(b.err, <<"Stat">> \o b.calls)
    ELSE [err |-> NoErr, nilptr |-> FALSE, fs |-> b.fs, calls |-> <<"Stat">> \o b.calls]

NewFSChecked(dir, info) ==
    IF info.err # NoErr THEN NewFSFail(info.err, <<"Stat">>)
    ELSE IF info.kind # "dir" THEN NewFSFail(ErrNotDir, <<"Stat">>)
    ELSE NewFSWrapped(BasefsNewFS(SourceFS, dir))

\* A NewFS that asks the source filesystem before it looks at the form of
\* dir.
NewFSResult_StatFirst(dir) ==
    IF dir = EmptyPath THEN NewFSFail(ErrInvalid, <<>>)
    ELSE IF SrcStat(dir).err # NoErr THEN NewFSFail(SrcStat(dir).err, <<"Stat">>)
    ELSE IF ~IsAbs(dir) THEN NewFSFail(ErrNotAbs, <<"Stat">>)
    ELSE NewFSChecked(dir, SrcStat(dir))

NewFSResult(dir) ==
    IF dir = EmptyPath THEN NewFSFail(ErrInvalid, <<>>)
    ELSE IF ~IsAbs(dir) THEN NewFSFail(ErrNotAbs, <<>>)
    ELSE NewFSChecked(dir, SrcStat(dir))

\* A wrapping that returns a File whatever the inner call returned.
WrapFile_Always(file, calls) ==
    [err |-> file.err, wrapped |-> TRUE, loc |-> file.loc, calls |-> calls]

\* The three lines after an inner open or create: a failure returns a nil
\* File and the error, a success a File that wraps the inner handle.
WrapFile(file, calls) ==
    IF file.err # NoErr
    THEN [err |-> file.err, wrapped |-> FALSE, loc |-> <<>>, calls |-> calls]
    ELSE [err |-> NoErr, wrapped |-> TRUE, loc |-> file.loc, calls |-> calls]

\* A method called on a Filesystem whose fs field is nil.
Panicked(calls) == [err |-> Panic, wrapped |-> FALSE, loc |-> <<>>, calls |-> calls]

CreateResult(fs, filename) ==
    IF fs.nil THEN Panicked(<<>>)
    ELSE WrapFile(FsCreate(fs, filename), <<"Create">>)

OpenResult(fs, filename) ==
    IF fs.nil THEN Panicked(<<>>)
    ELSE WrapFile(FsOpen(fs, filename), <<"Open">>)

\* The three lines after the inner OpenFile, as in WrapFile.
OpenFileReturn(file) ==
    IF file.err # NoErr
    THEN [err |-> file.err, wrapped |-> FALSE, loc |-> <<>>, calls |-> <<"OpenFile">>,
          made |-> FALSE, trunc |-> FALSE]
    ELSE [err |-> NoErr, wrapped |-> TRUE, loc |-> file.loc, calls |-> <<"OpenFile">>,
          made |-> file.made, trunc |-> file.trunc]

\* An OpenFile that does not hand O_EXCL on to the inner filesystem.
OpenFileResult_NoExcl(fs, filename, flag, perm) ==
    IF fs.nil
    THEN [err |-> Panic, wrapped |-> FALSE, loc |-> <<>>, calls |-> <<>>,
          made |-> FALSE, trunc |-> FALSE]
    ELSE OpenFileReturn(FsOpenFile(fs, filename, flag \ {"O_EXCL"}))

\* OpenFile: flag and perm go to the inner OpenFile as they are.
OpenFileResult(fs, filename, flag, perm) ==
    IF fs.nil
    THEN [err |-> Panic, wrapped |-> FALSE, loc |-> <<>>, calls |-> <<>>,
          made |-> FALSE, trunc |-> FALSE]
    ELSE OpenFileReturn(FsOpenFile(fs, filename, flag))

StatReturn(info) ==
    IF info.err # NoErr
    THEN [err |-> info.err, loc |-> <<>>, kind |-> "none", calls |-> <<"Stat">>]
    ELSE [err |-> NoErr, loc |-> info.loc, kind |-> info.kind, calls |-> <<"Stat">>]

StatResult(fs, filename) ==
    IF fs.nil THEN [err |-> Panic, loc |-> <<>>, kind |-> "none", calls |-> <<>>]
    ELSE StatReturn(FsStat(fs, filename))

\* A Chroot that returns the receiver's filesystem beside the error.
ChrootReturn_KeepsFs(fs, b) ==
    IF b.err # NoErr
    THEN [err |-> b.err, fs |-> fs, self |-> fs, calls |-> b.calls]
    ELSE [err |-> NoErr, fs |-> b.fs, self |-> fs, calls |-> b.calls]

\* A Chroot that assigns the new filesystem to the receiver's field as well.
ChrootReturn_Rebinds(fs, b) ==
    IF b.err # NoErr
    THEN [err |-> b.err, fs |-> NilFS, self |-> fs, calls |-> b.calls]
    ELSE [err |-> NoErr, fs |-> b.fs, self |-> b.fs, calls |-> b.calls]

\* Chroot: always returns a non-nil *Filesystem; self is the receiver's
\* filesystem value after the call.
ChrootReturn(fs, b) ==
    IF b.err # NoErr
    THEN [err |-> b.err, fs |-> NilFS, self |-> fs, calls |-> b.calls]
    ELSE [err |-> NoErr, fs |-> b.fs, self |-> fs, calls |-> b.calls]

\* A Chroot that roots the new wrapper in the source filesystem, not in the
\* receiver's filesystem.
ChrootResult_Unwrapped(fs, path) == ChrootReturn(fs, BasefsNewFS(SourceFS, path))

ChrootResult(fs, path) == ChrootReturn(fs, BasefsNewFS(fs, path))

RootReturn(path) == IF path = EmptyPath THEN Separator ELSE path

RootResult(fs) == RootReturn(BasefsPrefix(fs))

\* dir.Readdir(n) of the inner handle: all the entries the directory yields
\* for n <= 0, at most n of them otherwise.
InnerReaddir(yield, n) ==
    IF n <= 0 \/ n >= Len(yield) THEN yield ELSE SubSeq(yield, 1, n)

\* A ReadDir without the deferred Close.
ReadDirOpened_NoClose(dir, yield) ==
    IF dir.err # NoErr
    THEN [err |-> dir.err, entries |-> <<>>, loc |-> <<>>, leak |-> FALSE,
          calls |-> <<"Open">>]
    ELSE IF dir.kind # "dir"
    THEN [err |-> ErrNotDir, entries |-> <<>>, loc |-> dir.loc, leak |-> TRUE,
          calls |-> <<"Open", "Readdir">>]
    ELSE [err |-> NoErr, entries |-> InnerReaddir(yield, 0), loc |-> dir.loc,
          leak |-> TRUE, calls |-> <<"Open", "Readdir">>]

\* A ReadDir that asks the inner handle for one entry: dir.Readdir(1).
ReadDirOpened_Paged(dir, yield) ==
    IF dir.err # NoErr
    THEN [err |-> dir.err, entries |-> <<>>, loc |-> <<>>, leak |-> FALSE,
          calls |-> <<"Open">>]
    ELSE IF dir.kind # "dir"
    THEN [err |-> ErrNotDir, entries |-> <<>>, loc |-> dir.loc, leak |-> FALSE,
          calls |-> <<"Open", "Readdir", "Close">>]
    ELSE [err |-> NoErr, entries |-> InnerReaddir(yield, 1), loc |-> dir.loc,
          leak |-> FALSE, calls |-> <<"Open", "Readdir", "Close">>]

\* ReadDir after its open: yield is the sequence of entries the inner
\* directory handle produces; leak says that the handle opened is still open
\* on return.
ReadDirOpened(dir, yield) ==
    IF dir.err # NoErr
    THEN [err |-> dir.err, entries |-> <<>>, loc |-> <<>>, leak |-> FALSE,
          calls |-> <<"Open">>]
    ELSE IF dir.kind # "dir"
    THEN [err |-> ErrNotDir, entries |-> <<>>, loc |-> dir.loc, leak |-> FALSE,
          calls |-> <<"Open", "Readdir", "Close">>]
    ELSE [err |-> NoErr, entries |-> InnerReaddir(yield, 0), loc |-> dir.loc,
          leak |-> FALSE, calls |-> <<"Open", "Readdir", "Close">>]

ReadDirResult(fs, path, yield) ==
    IF fs.nil
    THEN [err |-> Panic, entries |-> <<>>, loc |-> <<>>, leak |-> FALSE, calls |-> <<>>]
    ELSE ReadDirOpened(FsOpen(fs, path), yield)

\* The 52 letters of randSeq.
Letters ==
    << "a", "b", "c", "d", "e", "f", "g", "h", "i", "j", "k", "l", "m",
       "n", "o", "p", "q", "r", "s", "t", "u", "v", "w", "x", "y", "z",
       "A", "B", "C", "D", "E", "F", "G", "H", "I", "J", "K", "L", "M",
       "N", "O", "P", "Q", "R", "S", "T", "U", "V", "W", "X", "Y", "Z" >>

\* string(b) of a []rune b.
RECURSIVE StringOf(_)
StringOf(b) == IF b = <<>> THEN "" ELSE StringOf(Front(b)) \o Last(b)

\* A randSeq whose loop leaves the last rune of b out of the result.
RandRunes_Short(n, draws) == [k \in 1..(IF n > 0 THEN n - 1 ELSE 0) |-> Letters[draws[k] + 1]]

\* The loop of randSeq(n): b[k] = letters[rng.Intn(len(letters))], where
\* draws[k] is the value of the k-th rng.Intn.
RandRunes(n, draws) == [k \in 1..n |-> Letters[draws[k] + 1]]

\* randSeq(n)
RandSeq(n, draws) == StringOf(RandRunes(n, draws))

SuffixLen == 5

\* A file name as a relative path string of one segment.
NameOf(name) == [abs |-> FALSE, segs |-> <<name>>]

\* A TempFile that ignores dir and always uses the inner TempDir().
TempFileResult_TempDirOnly(fs, dir, prefix, draws) ==
    IF fs.nil THEN Panicked(<<>>)
    ELSE WrapFile(FsCreate(fs, Join(TempDir,
                                    NameOf(prefix \o "_" \o RandSeq(SuffixLen, draws)))),
                  <<"TempDir", "Create">>)

\* A TempFile that creates its file with O_EXCL.
TempFileResult_Excl(fs, dir, prefix, draws) ==
    IF fs.nil THEN Panicked(<<>>)
    ELSE WrapFile(FsOpenFile(fs, Join(IF dir = EmptyPath THEN TempDir ELSE dir,
                                      NameOf(prefix \o "_" \o RandSeq(SuffixLen, draws))),
                             {"O_RDWR", "O_CREATE", "O_EXCL"}),
                  IF dir = EmptyPath THEN <<"TempDir", "OpenFile">> ELSE <<"OpenFile">>)

\* A TempFile that tries the temporary directory when its create failed.
TempFileResult_Retry(fs, dir, prefix, draws) ==
    IF fs.nil THEN Panicked(<<>>)
    ELSE IF FsCreate(fs, Join(IF dir = EmptyPath THEN TempDir ELSE dir,
                              NameOf(prefix \o "_" \o RandSeq(SuffixLen, draws)))).err = NoErr
    THEN WrapFile(FsCreate(fs, Join(IF dir = EmptyPath THEN TempDir ELSE dir,
                                    NameOf(prefix \o "_" \o RandSeq(SuffixLen, draws)))),
                  IF dir = EmptyPath THEN <<"TempDir", "Create">> ELSE <<"Create">>)
    ELSE WrapFile(FsCreate(fs, Join(TempDir,
                                    NameOf(prefix \o "_" \o RandSeq(SuffixLen, draws)))),
                  <<"Create", "TempDir", "Create">>)

\* TempFile: the directory is dir, or the inner TempDir() for the empty string.
TempFileResult(fs, dir, prefix, draws) ==
    IF fs.nil THEN Panicked(<<>>)
    ELSE WrapFile(FsCreate(fs, Join(IF dir = EmptyPath THEN TempDir ELSE dir,
                                    NameOf(prefix \o "_" \o RandSeq(SuffixLen, draws)))),
                  IF dir = EmptyPath THEN <<"TempDir", "Create">> ELSE <<"Create">>)

----------------------------------------------------------------------------
(* The state machine: one caller makes one call at a time; each action is  *)
(* one call, from entry to return, and leaves its results in ret.          *)

\* A Filesystem value: fs is the struct's only field.  The other fields are
\* history: home is the source directory that is the root of the value,
\* base the adapter whose Chroot returned it (0 for NewFS), dir the path string
\* it was constructed with, ok whether its constructor returned a nil error.
Adapter(fs, home, base, dir, ok) ==
    [fs |-> fs, home |-> home, base |-> base, dir |-> dir, ok |-> ok]

\* Error values of the File methods: the chain of messages from the error
\* itself to the innermost error it wraps; nil is the empty chain.  Two
\* error values are the same value (==) when the chains are equal.
NilErr == <<>>
EOF == <<"EOF">>
ErrFileClosed == <<"file already closed">>
ErrNegative == <<"invalid argument">>

\* An inner handle just opened on loc by adapter ad: open, at offset 0; acc
\* is "r", "w" or "rw", what the handle was opened for; flag is the flag an
\* OpenFile gave.
Handle(loc, ad, acc) ==
    [loc |-> loc, ad |-> ad, open |-> TRUE, off |-> 0, acc |-> acc, flag |-> {}]

\* The contents after the file at loc was created or truncated.
Truncated(loc) ==
    [l \in DOMAIN content \cup {loc} |-> IF l = loc THEN <<>> ELSE content[l]]

Idle ==
    [op |-> "none", ad |-> 0, dir |-> EmptyPath, abs |-> FALSE, dots |-> FALSE,
     err |-> NoErr, new |-> 0, h |-> 0, loc |-> <<>>, kind |-> "none",
     root |-> EmptyPath, entries |-> <<>>, yield |-> <<>>, calls |-> <<>>,
     prefix |-> "", draws |-> <<>>, perm |-> {}, n |-> 0, runes |-> <<>>, str |-> "",
     closeErr |-> NoErr, flag |-> {}, data |-> <<>>, ferr |-> NilErr, name |-> EmptyPath]

InitDirs == {<<>>, <<"d">>, <<"d", "d">>, <<"d", "p">>, <<"d", "q">>, <<"d", "t">>}
InitFiles == {<<"x">>, <<"d", "p", "x">>, <<"d", "q", "x">>}

Callers == 1..MaxCallers
FileIds == 1..MaxFiles

FsInit ==
    /\ dirs = InitDirs
    /\ files = InitFiles
    /\ content = [l \in InitFiles |-> <<>>]
    /\ adapters = <<>>
    /\ handles = <<>>
    /\ ret = Idle

\* The package variables before their first use, and callers yet to call.
TempInit ==
    /\ once = "new"
    /\ rng = [src |-> 0, made |-> 0, inside |-> {}, torn |-> {}]
    /\ pc = [c \in Callers |-> "start"]
    /\ buf = [c \in Callers |-> <<>>]
    /\ made = [c \in Callers |-> ""]

IdleF ==
    [op |-> "none", by |-> 0, file |-> 0, was |-> FALSE, in |-> NilErr, err |-> NilErr,
     n |-> 0]

\* Files just opened for reading and writing on one file of one byte:
\* unlocked, at offset 0.
FileInit ==
    /\ mu = [f \in FileIds |-> FALSE]
    /\ holds = [c \in Callers |-> {}]
    /\ inner = [f \in FileIds |-> [closed |-> FALSE, off |-> 0]]
    /\ size = 1
    /\ fret = IdleF

Init == FsInit /\ TempInit /\ FileInit

FileInputs == PathStrings(MaxSegs)
DirInputs == PathStrings(MaxDirSegs)
Prefixes == {"x"}
DrawVals == {0, 51}
DrawInputs ==
    {[k \in 1..SuffixLen |-> IF k = SuffixLen THEN b ELSE a] : a \in DrawVals, b \in DrawVals}

Ready == ret.op = "none"

OpenHandles == {k \in DOMAIN handles : handles[k].open}

\* A directory's entries as os.FileInfo values: base name and IsDir.
Entry(l) == [name |-> Last(l), isdir |-> l \in dirs]

Entries(loc) == {Entry(l) : l \in Children(loc)}

RECURSIVE SeqOf(_)
SeqOf(S) ==
    IF S = {} THEN <<>>
    ELSE LET x == CHOOSE y \in S : TRUE IN <<x>> \o SeqOf(S \ {x})

\* Orders in which a directory handle may yield its entries: any entry may
\* come first.
Orders(E) == IF E = {} THEN {<<>>} ELSE {<<x>> \o SeqOf(E \ {x}) : x \in E}

Yields(fs, dir) ==
    IF ~fs.nil /\ dir.err = NoErr /\ dir.kind = "dir" THEN Orders(Entries(dir.loc))
    ELSE {<<>>}

\* Permission bits: 0666 is what Create asks for, 0600 the owner's read and
\* write bits.
Perm0666 == {"ur", "uw", "gr", "gw", "or", "ow"}
Perm0600 == {"ur", "uw"}

\* The permission the inner calls ask for: Create creates with mode 0666
\* (before umask); nothing else creates.
Requested(calls) == IF \E k \in DOMAIN calls : calls[k] = "Create" THEN Perm0666 ELSE {}

\* The caller's view of a call that may hand out a File: the file created,
\* the handle now open, the results.
HandOut(op, i, arg, r) ==
    /\ files' = IF r.wrapped /\ op # "Open" THEN files \cup {r.loc} ELSE files
    /\ content' = IF r.wrapped /\ op # "Open" THEN Truncated(r.loc) ELSE content
    /\ handles' = IF r.wrapped
                  THEN Append(handles, Handle(r.loc, i, IF op = "Open" THEN "r" ELSE "rw"))
                  ELSE handles
    /\ ret' = [Idle EXCEPT !.op = op, !.ad = i, !.name = arg,
                           !.dir = IF op = "TempFile" THEN arg ELSE EmptyPath,
                           !.abs = IsAbs(arg), !.dots = HasDots(arg),
                           !.err = r.err,
                           !.h = IF r.wrapped THEN Len(handles) + 1 ELSE 0,
                           !.loc = r.loc, !.calls = r.calls,
                           !.perm = Requested(r.calls)]
    /\ UNCHANGED <<dirs, adapters, tempVars, fileVars>>

NewFSDone(dir, r) ==
    /\ adapters' = IF r.nilptr THEN adapters
                   ELSE Append(adapters,
                               Adapter(r.fs, SrcStat(dir).loc, 0, dir, r.err = NoErr))
    /\ ret' = [Idle EXCEPT !.op = "NewFS", !.dir = dir, !.err = r.err,
                           !.new = IF r.nilptr THEN 0 ELSE Len(adapters) + 1,
                           !.calls = r.calls]
    /\ UNCHANGED <<dirs, files, content, handles, tempVars, fileVars>>

NewFS(dir) ==
    /\ Ready
    /\ Len(adapters) < MaxAdapters
    /\ NewFSDone(dir, NewFSResult(dir))

ChrootDone(i, path, r) ==
    /\ adapters' = Append([adapters EXCEPT ![i].fs = r.self],
                          IF r.err = NoErr
                          THEN Adapter(r.fs, FsStat(r.fs, Separator).loc, i, path, TRUE)
                          ELSE Adapter(r.fs, <<>>, i, EmptyPath, FALSE))
    /\ ret' = [Idle EXCEPT !.op = "Chroot", !.ad = i, !.dir = path, !.err = r.err,
                           !.new = Len(adapters) + 1, !.calls = r.calls]
    /\ UNCHANGED <<dirs, files, content, handles, tempVars, fileVars>>

Chroot(i, path) ==
    /\ Ready
    /\ Len(adapters) < MaxAdapters
    /\ ChrootDone(i, path, ChrootResult(adapters[i].fs, path))

Root(i) ==
    /\ Ready
    /\ ret' = [Idle EXCEPT !.op = "Root", !.ad = i, !.root = RootResult(adapters[i].fs)]
    /\ UNCHANGED <<dirs, files, content, adapters, handles, tempVars, fileVars>>

Create(i, filename) ==
    /\ Ready
    /\ HandOut("Create", i, filename, CreateResult(adapters[i].fs, filename))

Open(i, filename) ==
    /\ Ready
    /\ HandOut("Open", i, filename, OpenResult(adapters[i].fs, filename))

OpenFileDone(i, filename, flag, perm, r) ==
    /\ files' = IF r.wrapped /\ r.made THEN files \cup {r.loc} ELSE files
    /\ content' = IF r.wrapped /\ (r.made \/ r.trunc) THEN Truncated(r.loc) ELSE content
    /\ handles' = IF r.wrapped
                  THEN Append(handles, [Handle(r.loc, i, Access(flag)) EXCEPT !.flag = flag])
                  ELSE handles
    /\ ret' = [Idle EXCEPT !.op = "OpenFile", !.ad = i, !.name = filename,
                           !.abs = IsAbs(filename), !.dots = HasDots(filename),
                           !.err = r.err,
                           !.h = IF r.wrapped THEN Len(handles) + 1 ELSE 0,
                           !.loc = r.loc, !.calls = r.calls, !.flag = flag,
                           !.perm = IF "O_CREATE" \in flag THEN perm ELSE {}]
    /\ UNCHANGED <<dirs, adapters, tempVars, fileVars>>

OpenFile(i, filename, flag, perm) ==
    /\ Ready
    /\ OpenFileDone(i, filename, flag, perm, OpenFileResult(adapters[i].fs, filename, flag, perm))

StatDone(i, r) ==
    /\ ret' = [Idle EXCEPT !.op = "Stat", !.ad = i, !.err = r.err,
                           !.loc = r.loc, !.kind = r.kind, !.calls = r.calls]
    /\ UNCHANGED <<dirs, files, content, adapters, handles, tempVars, fileVars>>

Stat(i, filename) ==
    /\ Ready
    /\ StatDone(i, StatResult(adapters[i].fs, filename))

\* closeErr is what the deferred dir.Close() returns; ReadDir does not look at
\* it.
ReadDirDone(i, yield, closeErr, r) ==
    /\ handles' = IF r.leak
                  THEN Append(handles, Handle(r.loc, i, "r"))
                  ELSE handles
    /\ ret' = [Idle EXCEPT !.op = "ReadDir", !.ad = i, !.err = r.err, !.loc = r.loc,
                           !.entries = r.entries, !.yield = yield, !.calls = r.calls,
                           !.closeErr = IF \E k \in DOMAIN r.calls : r.calls[k] = "Close"
                                        THEN closeErr ELSE NoErr]
    /\ UNCHANGED <<dirs, files, content, adapters, tempVars, fileVars>>

ReadDir(i, path, closeErr) ==
    /\ Ready
    /\ \E yield \in Yields(adapters[i].fs, FsOpen(adapters[i].fs, path)) :
          ReadDirDone(i, yield, closeErr, ReadDirResult(adapters[i].fs, path, yield))

\* The caller's view of a TempFile: as for Create, with the prefix given and
\* the values the random source returned.
TempFileDone(i, dir, prefix, draws, r) ==
    /\ files' = IF r.wrapped THEN files \cup {r.loc} ELSE files
    /\ content' = IF r.wrapped THEN Truncated(r.loc) ELSE content
    /\ handles' = IF r.wrapped
                  THEN Append(handles, Handle(r.loc, i, "rw"))
                  ELSE handles
    /\ ret' = [Idle EXCEPT !.op = "TempFile", !.ad = i, !.dir = dir,
                           !.abs = IsAbs(dir), !.dots = HasDots(dir),
                           !.err = r.err,
                           !.h = IF r.wrapped THEN Len(handles) + 1 ELSE 0,
                           !.loc = r.loc, !.calls = r.calls,
                           !.perm = Requested(r.calls),
                           !.prefix = prefix, !.draws = draws]
    /\ UNCHANGED <<dirs, adapters, tempVars, fileVars>>

TempFile(i, dir, prefix, draws) ==
    /\ Ready
    /\ TempFileDone(i, dir, prefix, draws, TempFileResult(adapters[i].fs, dir, prefix, draws))

\* randSeq(n) called on its own.
RandSeqCall(n, draws) ==
    /\ Ready
    /\ ret' = [Idle EXCEPT !.op = "randSeq", !.n = n, !.draws = draws,
                           !.runes = RandRunes(n, draws), !.str = RandSeq(n, draws)]
    /\ UNCHANGED <<dirs, files, content, adapters, handles, tempVars, fileVars>>

\* A Close that returns without closing the inner handle.
Close_Forgets(h) ==
    /\ Ready
    /\ ret' = [Idle EXCEPT !.op = "Close", !.h = h, !.calls = <<>>]
    /\ UNCHANGED <<dirs, files, content, adapters, handles, tempVars, fileVars>>

\* File.Close: closes the inner handle.
Close(h) ==
    /\ Ready
    /\ handles' = [handles EXCEPT ![h].open = FALSE]
    /\ ret' = [Idle EXCEPT !.op = "Close", !.h = h,
                           !.err = IF handles[h].open THEN NoErr ELSE ErrClosed,
                           !.calls = <<"Close">>]
    /\ UNCHANGED <<dirs, files, content, adapters, tempVars, fileVars>>

\* The caller takes the results and is ready for its next call.
Return ==
    /\ ~Ready
    /\ ret' = Idle
    /\ UNCHANGED <<dirs, files, content, adapters, handles, tempVars, fileVars>>

Next ==
    \/ \E dir \in DirInputs : NewFS(dir)
    \/ \E i \in DOMAIN adapters, path \in DirInputs : Chroot(i, path)
    \/ \E i \in DOMAIN adapters : Root(i)
    \/ \E i \in DOMAIN adapters, filename \in FileInputs :
          Len(handles) < MaxHandles /\ Create(i, filename)
    \/ \E i \in DOMAIN adapters, filename \in FileInputs :
          Len(handles) < MaxHandles /\ Open(i, filename)
    \/ \E i \in DOMAIN adapters, filename \in FileInputs : Stat(i, filename)
    \/ \E i \in DOMAIN adapters, path \in FileInputs : ReadDir(i, path, NoErr)
    \/ \E i \in DOMAIN adapters, dir \in DirInputs, prefix \in Prefixes,
          draws \in DrawInputs : Len(handles) < MaxHandles /\ TempFile(i, dir, prefix, draws)
    \/ \E h \in DOMAIN handles : Close(h)
    \/ Return

Spec == Init /\ [][Next]_vars

\* NewFS, TempFile and randSeq alone.
NextName ==
    \/ \E dir \in DirInputs : NewFS(dir)
    \/ \E i \in DOMAIN adapters, dir \in DirInputs, prefix \in Prefixes,
          draws \in DrawInputs : Len(handles) < MaxHandles /\ TempFile(i, dir, prefix, draws)
    \/ \E n \in 0..MaxRunes : \E draws \in [1..n -> DrawVals] : RandSeqCall(n, draws)
    \/ Return

SpecName == Init /\ [][NextName]_vars

----------------------------------------------------------------------------
(* Concurrent callers of TempFile, step by step: initRNG, the draws of     *)
(* randSeq(5), the create.  All callers give the same directory, which     *)
(* exists, and the same prefix.                                            *)

\* A check of the source that excludes nobody: whoever arrives before the
\* source is set runs the initialisation.
OnceGate_Unguarded(state) == IF state = "done" THEN "skip" ELSE "run"

\* A once.Do that does not make a caller wait for the function another
\* caller is still running.
OnceGate_NoWait(state) == IF state = "new" THEN "run" ELSE "skip"

\* once.Do: the first caller runs the function, a caller that arrives while
\* it runs waits for it, a later one skips it.
OnceGate(state) ==
    IF state = "new" THEN "run" ELSE IF state = "running" THEN "wait" ELSE "skip"

\* initRNG up to the function of once.Do.
InitRNG(c) ==
    /\ pc[c] = "start"
    /\ OnceGate(once) # "wait"
    /\ once' = IF OnceGate(once) = "run" THEN "running" ELSE once
    /\ pc' = [pc EXCEPT ![c] = IF OnceGate(once) = "run" THEN "seed" ELSE "draw"]
    /\ UNCHANGED <<rng, buf, made, fsVars, fileVars>>

\* The function of once.Do: rng = rand.New(rand.NewSource(...)); src names
\* the source rng points to, made counts the sources created.
Seed(c) ==
    /\ pc[c] = "seed"
    /\ rng' = [rng EXCEPT !.src = rng.made + 1, !.made = rng.made + 1]
    /\ once' = "done"
    /\ pc' = [pc EXCEPT ![c] = "draw"]
    /\ UNCHANGED <<buf, made, fsVars, fileVars>>

\* randSeq: a caller enters rng.Intn; nothing keeps it out while another
\* caller is inside.  torn holds the callers whose call overlaps another's.
IntnEnter(c) ==
    /\ pc[c] = "draw"
    /\ Len(buf[c]) < SuffixLen
    /\ rng' = [rng EXCEPT !.inside = rng.inside \cup {c},
                          !.torn = IF rng.inside = {} THEN rng.torn
                                   ELSE rng.torn \cup rng.inside \cup {c}]
    /\ pc' = [pc EXCEPT ![c] = "intn"]
    /\ UNCHANGED <<once, buf, made, fsVars, fileVars>>

\* rng.Intn returns v and the letter is stored in b.
IntnLeave(c, v) ==
    /\ pc[c] = "intn"
    /\ rng' = [rng EXCEPT !.inside = rng.inside \ {c}, !.torn = rng.torn \ {c}]
    /\ buf' = [buf EXCEPT ![c] = Append(buf[c], Letters[v + 1])]
    /\ pc' = [pc EXCEPT ![c] = IF Len(buf[c]) + 1 = SuffixLen THEN "create" ELSE "draw"]
    /\ UNCHANGED <<once, made, fsVars, fileVars>>

\* A call of rng.Intn that overlaps another one is a data race on the
\* source: besides returning any value it may index out of range and panic.
IntnPanic(c) ==
    /\ pc[c] = "intn"
    /\ c \in rng.torn
    /\ rng' = [rng EXCEPT !.inside = rng.inside \ {c}, !.torn = rng.torn \ {c}]
    /\ pc' = [pc EXCEPT ![c] = "panic"]
    /\ UNCHANGED <<once, buf, made, fsVars, fileVars>>

TempPrefix == "x"

\* f.fs.Create(p): the file is created, or truncated when it exists.
CreateTemp(c) ==
    /\ pc[c] = "create"
    /\ made' = [made EXCEPT ![c] = TempPrefix \o "_" \o StringOf(buf[c])]
    /\ pc' = [pc EXCEPT ![c] = "done"]
    /\ UNCHANGED <<once, rng, buf, fsVars, fileVars>>

NextTemp ==
    \/ \E c \in Callers : InitRNG(c)
    \/ \E c \in Callers : Seed(c)
    \/ \E c \in Callers : IntnEnter(c)
    \/ \E c \in Callers, v \in DrawVals : IntnLeave(c, v)
    \/ \E c \in Callers : IntnPanic(c)
    \/ \E c \in Callers : CreateTemp(c)

SpecTemp == Init /\ [][NextTemp]_vars

----------------------------------------------------------------------------
(* Concurrent callers of the methods of File.  Every method is one step.   *)
(* The inner handle is an absfs.File that behaves as an *os.File does.     *)

FileName == "x"

Smaller(a, b) == IF a < b THEN a ELSE b
Larger(a, b) == IF a < b THEN b ELSE a

\* What an inner call returns and leaves behind when it changes nothing.
Still(h) == [n |-> 0, err |-> NilErr, off |-> h.off, size |-> size, closed |-> h.closed]

Failed(h, e) == [Still(h) EXCEPT !.err = e]

InnerRead(h, n) ==
    IF h.closed THEN Failed(h, ErrFileClosed)
    ELSE IF h.off >= size THEN Failed(h, EOF)
    ELSE [Still(h) EXCEPT !.n = Smaller(n, size - h.off),
                          !.off = h.off + Smaller(n, size - h.off)]

InnerWrite(h, n) ==
    IF h.closed THEN Failed(h, ErrFileClosed)
    ELSE [Still(h) EXCEPT !.n = n, !.off = h.off + n, !.size = Larger(size, h.off + n)]

InnerReadAt(h, n, off) ==
    IF h.closed THEN Failed(h, ErrFileClosed)
    ELSE IF off < 0 THEN Failed(h, ErrNegative)
    ELSE IF off >= size THEN Failed(h, EOF)
    ELSE IF off + n > size THEN [Failed(h, EOF) EXCEPT !.n = size - off]
    ELSE [Still(h) EXCEPT !.n = n]

InnerWriteAt(h, n, off) ==
    IF h.closed THEN Failed(h, ErrFileClosed)
    ELSE IF off < 0 THEN Failed(h, ErrNegative)
    ELSE [Still(h) EXCEPT !.n = n, !.size = Larger(size, off + n)]

\* Seek from the start of the file; n is the new position.
InnerSeek(h, offset) ==
    IF h.closed THEN Failed(h, ErrFileClosed)
    ELSE IF offset < 0 THEN Failed(h, ErrNegative)
    ELSE [Still(h) EXCEPT !.n = offset, !.off = offset]

InnerTruncate(h, sz) ==
    IF h.closed THEN Failed(h, ErrFileClosed)
    ELSE IF sz < 0 THEN Failed(h, ErrNegative)
    ELSE [Still(h) EXCEPT !.size = sz]

InnerClose(h) ==
    IF h.closed THEN Failed(h, ErrFileClosed)
    ELSE [Still(h) EXCEPT !.closed = TRUE]

\* fmt.Errorf(context + ": %w", err): a new error, whose message starts with
\* the context and which wraps err.
Errorf(context, err) == <<context \o ": " \o err[1]>> \o err

\* errors.Is(err, target) for the errors of this model.
Is(err, target) == \E k \in 1..Len(err) : SubSeq(err, k, Len(err)) = target

\* The error a method returns for the error of its inner call.
Annotated(context, err) == IF err # NilErr THEN Errorf(context, err) ELSE NilErr

\* A method of f called by c has returned: r is what its inner call
\* returned and left behind.
FileDone(op, c, f, r, context) ==
    /\ inner' = [inner EXCEPT ![f] = [closed |-> r.closed, off |-> r.off]]
    /\ size' = r.size
    /\ fret' = [op |-> op, by |-> c, file |-> f, was |-> inner[f].closed,
                in |-> r.err, err |-> Annotated(context, r.err), n |-> r.n]
    /\ UNCHANGED <<mu, holds, fsVars, tempVars>>

FileNameOf(c, f) ==
    FileDone("Name", c, f, Still(inner[f]), "")

FileWrite(c, f, n) ==
    /\ inner[f].off + n <= MaxSize
    /\ FileDone("Write", c, f, InnerWrite(inner[f], n), "write " \o FileName)

\* A Read that takes the File's mutex for the time of the call.
FileRead_Locking(c, f, n) ==
    /\ ~mu[f]
    /\ FileDone("Read", c, f, InnerRead(inner[f], n), "read " \o FileName)

FileRead(c, f, n) ==
    FileDone("Read", c, f, InnerRead(inner[f], n), "read " \o FileName)

FileReadAt(c, f, n, off) ==
    FileDone("ReadAt", c, f, InnerReadAt(inner[f], n, off),
             "readat " \o FileName \o " (offset=" \o ToString(off) \o ")")

FileWriteAt(c, f, n, off) ==
    /\ off + n <= MaxSize
    /\ FileDone("WriteAt", c, f, InnerWriteAt(inner[f], n, off),
                "writeat " \o FileName \o " (offset=" \o ToString(off) \o ")")

FileSeek(c, f, offset) ==
    FileDone("Seek", c, f, InnerSeek(inner[f], offset),
             "seek " \o FileName \o " (offset=" \o ToString(offset) \o ", whence=0)")

\* A Close that leaves the inner handle open.
FileClose_Noop(c, f) ==
    FileDone("Close", c, f, Still(inner[f]), "close " \o FileName)

FileClose(c, f) ==
    FileDone("Close", c, f, InnerClose(inner[f]), "close " \o FileName)

FileTruncate(c, f, sz) ==
    FileDone("Truncate", c, f, InnerTruncate(inner[f], sz),
             "truncate " \o FileName \o " to " \o ToString(sz) \o " bytes")

\* A Lock that looks at the inner handle and refuses a closed File.
FileLock_OpenOnly(c, f) ==
    /\ ~inner[f].closed
    /\ ~mu[f]
    /\ mu' = [mu EXCEPT ![f] = TRUE]
    /\ holds' = [holds EXCEPT ![c] = holds[c] \cup {f}]
    /\ fret' = [op |-> "Lock", by |-> c, file |-> f, was |-> inner[f].closed,
                in |-> NilErr, err |-> NilErr, n |-> 0]
    /\ UNCHANGED <<inner, size, fsVars, tempVars>>

\* One mutex for all the Files.
MutexFree_Shared(f) == \A g \in FileIds : ~mu[g]

\* f.mu.Lock() returns when the mutex of f is free, and then holds it.
MutexFree(f) == ~mu[f]

FileLock(c, f) ==
    /\ MutexFree(f)
    /\ mu' = [mu EXCEPT ![f] = TRUE]
    /\ holds' = [holds EXCEPT ![c] = holds[c] \cup {f}]
    /\ fret' = [IdleF EXCEPT !.op = "Lock", !.by = c, !.file = f, !.was = inner[f].closed]
    /\ UNCHANGED <<inner, size, fsVars, tempVars>>

\* f.mu.Unlock(): callers unlock only a File whose Lock returned to them
\* (the Unlock of a free mutex is a fatal error of the runtime).
FileUnlock(c, f) ==
    /\ f \in holds[c]
    /\ mu' = [mu EXCEPT ![f] = FALSE]
    /\ holds' = [holds EXCEPT ![c] = holds[c] \ {f}]
    /\ fret' = [IdleF EXCEPT !.op = "Unlock", !.by = c, !.file = f, !.was = inner[f].closed]
    /\ UNCHANGED <<inner, size, fsVars, tempVars>>

Lengths == 1..MaxSize
Offsets == -1..MaxSize

NextFile ==
    \/ \E c \in Callers, f \in FileIds : FileNameOf(c, f)
    \/ \E c \in Callers, f \in FileIds, n \in Lengths : FileWrite(c, f, n)
    \/ \E c \in Callers, f \in FileIds, n \in Lengths : FileRead(c, f, n)
    \/ \E c \in Callers, f \in FileIds, n \in Lengths, off \in Offsets : FileReadAt(c, f, n, off)
    \/ \E c \in Callers, f \in FileIds, n \in Lengths, off \in Offsets : FileWriteAt(c, f, n, off)
    \/ \E c \in Callers, f \in FileIds, offset \in Offsets : FileSeek(c, f, offset)
    \/ \E c \in Callers, f \in FileIds : FileClose(c, f)
    \/ \E c \in Callers, f \in FileIds, sz \in Offsets : FileTruncate(c, f, sz)
    \/ \E c \in Callers, f \in FileIds : FileLock(c, f)
    \/ \E c \in Callers, f \in FileIds : FileUnlock(c, f)

SpecFile == Init /\ [][NextFile]_vars

----------------------------------------------------------------------------
(* Reading and writing through the Files the Filesystem hands out: one     *)
(* caller, one call at a time, on one Filesystem and the Files it made.    *)
(* A byte of a file is [v, by]: its value and the handle that wrote it.    *)

ErrBadFd == <<"bad file descriptor">>
ErrReadDir == <<"is a directory">>

Bytes == {1, 2}

HandleName(hd) == IF hd.loc = <<>> THEN "/" ELSE Last(hd.loc)

Tagged(p, h) == [k \in DOMAIN p |-> [v |-> p[k], by |-> h]]

Values(c) == [k \in DOMAIN c |-> c[k].v]

\* The bytes of a file after q was written at offset off: a gap between the
\* old end and off is filled with zero bytes.
Overwritten(c, off, q, h) ==
    IF q = <<>> THEN c
    ELSE [k \in 1..Larger(Len(c), off + Len(q)) |->
             IF k > off /\ k <= off + Len(q) THEN q[k - off]
             ELSE IF k <= Len(c) THEN c[k]
             ELSE [v |-> 0, by |-> h]]

\* Write on the inner handle hd, which is handle h.
HandleWrite(h, hd, p) ==
    IF ~hd.open THEN [n |-> 0, err |-> ErrFileClosed, off |-> hd.off, bytes |-> <<>>]
    ELSE IF hd.acc = "r" THEN [n |-> 0, err |-> ErrBadFd, off |-> hd.off, bytes |-> <<>>]
    ELSE [n |-> Len(p), err |-> NilErr, off |-> hd.off + Len(p),
          bytes |-> Overwritten(content[hd.loc], hd.off, Tagged(p, h), h)]

\* Read on the inner handle hd into a buffer of n bytes.
HandleRead(hd, n) ==
    IF ~hd.open THEN [data |-> <<>>, err |-> ErrFileClosed, off |-> hd.off]
    ELSE IF hd.acc = "w" THEN [data |-> <<>>, err |-> ErrBadFd, off |-> hd.off]
    ELSE IF hd.loc \in dirs THEN [data |-> <<>>, err |-> ErrReadDir, off |-> hd.off]
    ELSE IF hd.off >= Len(content[hd.loc]) THEN [data |-> <<>>, err |-> EOF, off |-> hd.off]
    ELSE [data |-> Values(SubSeq(content[hd.loc], hd.off + 1,
                                 Smaller(Len(content[hd.loc]), hd.off + n))),
          err |-> NilErr,
          off |-> Smaller(Len(content[hd.loc]), hd.off + n)]

\* File.Read: what the method returns for what the inner Read returned.
ReadReturn(hd, r) ==
    [data |-> r.data, in |-> r.err, err |-> Annotated("read " \o HandleName(hd), r.err),
     off |-> r.off]

ReadResult(hd, n) == ReadReturn(hd, HandleRead(hd, n))

BufLen == 1

\* io.ReadAll(f): Read into a buffer until a Read returns an error; that
\* error is returned unless it is io.EOF, for which nil is returned.
RECURSIVE ReadAllFrom(_, _, _)
ReadAllFrom(hd, got, r) ==
    IF r.err # NilErr
    THEN [data |-> got, err |-> IF r.err = EOF THEN NilErr ELSE r.err, off |-> hd.off]
    ELSE ReadAllFrom([hd EXCEPT !.off = r.off], got \o r.data,
                     ReadResult([hd EXCEPT !.off = r.off], BufLen))

WriteDone(h, p, r) ==
    /\ content' = IF r.err = NilErr THEN [content EXCEPT ![handles[h].loc] = r.bytes]
                  ELSE content
    /\ handles' = [handles EXCEPT ![h].off = r.off]
    /\ ret' = [Idle EXCEPT !.op = "Write", !.h = h, !.loc = handles[h].loc, !.n = r.n,
                           !.data = p,
                           !.ferr = Annotated("write " \o HandleName(handles[h]), r.err)]
    /\ UNCHANGED <<dirs, files, adapters, tempVars, fileVars>>

\* File.Write
Write(h, p) ==
    /\ Ready
    /\ handles[h].off + Len(p) <= MaxBytes
    /\ WriteDone(h, p, HandleWrite(h, handles[h], p))

ReadDone(op, h, r) ==
    /\ handles' = [handles EXCEPT ![h].off = r.off]
    /\ ret' = [Idle EXCEPT !.op = op, !.h = h, !.loc = handles[h].loc,
                           !.n = handles[h].off, !.data = r.data, !.ferr = r.err]
    /\ UNCHANGED <<dirs, files, content, adapters, tempVars, fileVars>>

\* File.Read; ret.n is the offset the call found.
Read(h, n) ==
    /\ Ready
    /\ ReadDone("Read", h, ReadResult(handles[h], n))

\* io.ReadAll on a File.
ReadAll(h) ==
    /\ Ready
    /\ ReadDone("ReadAll", h, ReadAllFrom(handles[h], <<>>, ReadResult(handles[h], BufLen)))

DataDirs == {Separator}
DataNames == {Abs(<<"x">>), Abs(<<"d", "x">>)}
DataFlags ==
    {{"O_RDONLY"}, {"O_WRONLY", "O_CREATE", "O_EXCL"}, {"O_RDWR", "O_CREATE", "O_TRUNC"}}
DataDraws == {[k \in 1..SuffixLen |-> 0]}
Payloads == {<<>>} \cup {<<b>> : b \in Bytes}
CloseErrs == {NoErr, ErrIO}

NextData ==
    \/ \E dir \in DataDirs : adapters = <<>> /\ NewFS(dir)
    \/ \E i \in DOMAIN adapters : Chroot(i, Abs(<<"d">>))
    \/ \E i \in DOMAIN adapters, filename \in DataNames :
          Len(handles) < MaxOpen /\ Create(i, filename)
    \/ \E i \in DOMAIN adapters, filename \in DataNames :
          Len(handles) < MaxOpen /\ Open(i, filename)
    \/ \E i \in DOMAIN adapters, filename \in DataNames, flag \in DataFlags :
          Len(handles) < MaxOpen /\ OpenFile(i, filename, flag, Perm0600)
    \/ \E i \in DOMAIN adapters, draws \in DataDraws :
          Len(handles) < MaxOpen /\ TempFile(i, Abs(<<"d">>), "x", draws)
    \/ \E i \in DOMAIN adapters : Stat(i, Abs(<<"x">>))
    \/ \E i \in DOMAIN adapters, closeErr \in CloseErrs : ReadDir(i, Abs(<<"d", "p">>), closeErr)
    \/ \E h \in DOMAIN handles, p \in Payloads : Write(h, p)
    \/ \E h \in DOMAIN handles : Read(h, MaxBytes)
    \/ \E h \in DOMAIN handles : ReadAll(h)
    \/ \E h \in DOMAIN handles : Close(h)
    \/ Return

SpecData == Init /\ [][NextData]_vars

----------------------------------------------------------------------------
(* Properties.                                                             *)

FromNewFS(i) == adapters[i].base = 0
FromChroot(i) == adapters[i].base # 0 /\ adapters[i].ok

FileOps == {"Create", "Open", "Stat", "ReadDir", "TempFile"}

\* Path strings without a ".." segment.
PlainInputs == {n \in FileInputs : ~HasDots(n)}

\* dir is an absolute path string that names an existing directory of the
\* source filesystem.
NamesDirectory(dir) ==
    /\ IsAbs(dir)
    /\ SrcStat(dir).err = NoErr
    /\ SrcStat(dir).kind = "dir"

Resolves(c, n, s) ==
    IF Kind(c.home \o n.segs) = "none" THEN s.err # NoErr
    ELSE s.err = NoErr /\ s.loc = c.home \o n.segs

ChrootResolves(c) == \A n \in PlainInputs : Resolves(c, n, StatResult(c.fs, n))

\* The adapter i comes from a successful Chroot(P) with P a path of names,
\* like "/public": its root is then the directory D/P, for D the root of the
\* adapter the Chroot was called on.
ChrootedAt(i) == FromChroot(i) /\ ~HasDots(adapters[i].dir)

\* C2: the adapter a successful Chroot(P), P a path of names, on an adapter
\* rooted at D returns resolves every path relative to D/P, and no path given
\* to it, absolute or with ".." segments, opens, creates, lists or stats
\* anything outside D/P.
C2_ChrootIsolation ==
    /\ \A k \in DOMAIN handles :
          ChrootedAt(handles[k].ad) =>
              IsUnder(handles[k].loc, adapters[handles[k].ad].home)
    /\ (ret.op \in FileOps /\ ret.err = NoErr /\ ChrootedAt(ret.ad)) =>
          IsUnder(ret.loc, adapters[ret.ad].home)
    /\ (ret.op = "Chroot" /\ ret.err = NoErr /\ ChrootedAt(ret.new)) =>
          /\ adapters[ret.new].home = adapters[ret.ad].home \o ret.dir.segs
          /\ ChrootResolves(adapters[ret.new])

\* Through the adapter of Chroot("/p") on the adapter rooted at /d, the file
\* /d/p/x has been opened as "/x", while /d/q/x exists beside it.
C2_Witness ==
    /\ ret.op = "Open"
    /\ ChrootedAt(ret.ad)
    /\ adapters[ret.ad].home = <<"d", "p">>
    /\ ret.abs /\ ~ret.dots
    /\ ret.err = NoErr
    /\ ret.loc = <<"d", "p", "x">>
    /\ <<"d", "q", "x">> \in files

\* C3: no Open through an adapter made by NewFS(sourceFS, D), whatever the
\* path (".." segments, absolute paths), yields a handle on a location
\* outside D, and the handles it has yielded stay inside D.
C3_RootConfinement ==
    /\ \A k \in DOMAIN handles :
          FromNewFS(handles[k].ad) =>
              IsUnder(handles[k].loc, adapters[handles[k].ad].home)
    /\ (ret.op = "Open" /\ ret.err = NoErr /\ FromNewFS(ret.ad)) =>
          /\ IsUnder(ret.loc, adapters[ret.ad].home)
          /\ handles[ret.h].loc = ret.loc

\* An Open with a ".." segment has succeeded on an adapter whose root is not
\* the source root, while a file exists outside that root.
C3_Witness ==
    /\ ret.op = "Open"
    /\ FromNewFS(ret.ad)
    /\ adapters[ret.ad].home # Root0
    /\ ret.dots
    /\ ret.err = NoErr
    /\ \E f \in files : ~IsUnder(f, adapters[ret.ad].home)

\* P names, by at least one name and without "..", an existing directory in
\* the adapter i.
ExistingDirOf(i, P) ==
    /\ adapters[i].ok
    /\ P.segs # <<>>
    /\ ~HasDots(P)
    /\ StatResult(adapters[i].fs, P).err = NoErr
    /\ StatResult(adapters[i].fs, P).kind = "dir"

\* The adapter c shows at n what the adapter a shows at Join(P, n).
SameView(a, c, P, n) ==
    /\ StatResult(c.fs, n) = StatResult(a.fs, Join(P, n))
    /\ CreateResult(c.fs, n).err = NoErr =>
          CreateResult(c.fs, n).loc = CreateResult(a.fs, Join(P, n)).loc

\* C4: if P is an existing directory of adapter A, relative or absolute, then
\* A.Chroot(P) succeeds, and for every name n what is created or exists
\* through the chrooted adapter at n is what A has at Join(P, n).
C4_ChrootViewConsistent ==
    (ret.op = "Chroot" /\ ExistingDirOf(ret.ad, ret.dir)) =>
        /\ ret.err = NoErr
        /\ \A n \in PlainInputs :
              SameView(adapters[ret.ad], adapters[ret.new], ret.dir, n)

\* C5: a Chroot whose target does not exist returns an error, and the value
\* a failed Chroot returns performs no successful filesystem operation: every
\* call on it that reaches the inner filesystem fails and hands out no handle.
C5_FailedChrootUnusable ==
    /\ (ret.op = "Chroot" /\ adapters[ret.ad].ok
            /\ StatResult(adapters[ret.ad].fs, ret.dir).err # NoErr) =>
          ret.err # NoErr
    /\ (ret.op = "Chroot" /\ ret.err # NoErr) =>
          \A n \in FileInputs :
              /\ OpenResult(adapters[ret.new].fs, n).err # NoErr
              /\ CreateResult(adapters[ret.new].fs, n).err # NoErr
              /\ StatResult(adapters[ret.new].fs, n).err # NoErr
    /\ (ret.op \in FileOps /\ ~adapters[ret.ad].ok) => (ret.err # NoErr /\ ret.h = 0)
    /\ \A k \in DOMAIN handles : adapters[handles[k].ad].ok

\* An Open has been tried on the value a failed Chroot returned.
C5_Witness ==
    /\ ret.op = "Open"
    /\ adapters[ret.ad].base # 0
    /\ ~adapters[ret.ad].ok
    /\ ret.err # NoErr

\* C6: no call, a successful or a failed Chroot included, changes the inner
\* filesystem or the Root() of an adapter that exists already; a new root
\* appears only on the adapter a Chroot newly returns.
C6_ChrootKeepsReceiver ==
    [][\A i \in DOMAIN adapters :
          /\ i \in DOMAIN adapters'
          /\ adapters'[i].fs = adapters[i].fs
          /\ RootResult(adapters'[i].fs) = RootResult(adapters[i].fs)]_vars

\* A Chroot has succeeded: the adapter it returned has another inner
\* filesystem than its receiver.
C6_Witness ==
    /\ ret.op = "Chroot"
    /\ ret.err = NoErr
    /\ adapters[ret.new].fs # adapters[ret.ad].fs
    /\ adapters[ret.ad].fs = [nil |-> FALSE, chain |-> <<adapters[ret.ad].dir>>]

\* The adapter i is rooted strictly below the adapter its Chroot was called on.
ChrootedBelow(i) ==
    /\ FromChroot(i)
    /\ adapters[i].home # adapters[adapters[i].base].home
    /\ IsUnder(adapters[i].home, adapters[adapters[i].base].home)

\* C7: Root() of an adapter built by NewFS(sourceFS, D) is D; Root() is never
\* the empty string; Root() of the adapter of a successful Chroot to a
\* subdirectory differs from Root() of the adapter it was called on.
C7_RootReportsBase ==
    ret.op = "Root" =>
        /\ ret.root # EmptyPath
        /\ (FromNewFS(ret.ad) /\ adapters[ret.ad].ok) => ret.root = adapters[ret.ad].dir
        /\ ChrootedBelow(ret.ad) =>
              ret.root # RootResult(adapters[adapters[ret.ad].base].fs)

\* C8: a ReadDir whose open succeeds closes the handle it opened before it
\* returns, whether the enumeration succeeds or fails; one whose open fails
\* returns that error and neither reads nor closes; so the open handles are
\* the same before and after every ReadDir.
C8_ReadDirClosesHandle ==
    [][ret'.op = "ReadDir" =>
          /\ handles' = handles
          /\ Cardinality(OpenHandles') = Cardinality(OpenHandles)
          /\ \/ ret'.calls = <<"Open", "Readdir", "Close">>
             \/ ret'.calls = <<"Open">> /\ ret'.err # NoErr
             \/ ret'.calls = <<>> /\ ret'.err = Panic]_vars

\* A ReadDir of a plain file has returned: the open succeeded, the
\* enumeration failed, and the handle was closed, beside a handle still open.
C8_Witness ==
    /\ ret.op = "ReadDir"
    /\ ret.err = ErrNotDir
    /\ ret.loc \in files
    /\ ret.calls = <<"Open", "Readdir", "Close">>
    /\ OpenHandles # {}

Alphabet ==
    {"a", "b", "c", "d", "e", "f", "g", "h", "i", "j", "k", "l", "m",
     "n", "o", "p", "q", "r", "s", "t", "u", "v", "w", "x", "y", "z",
     "A", "B", "C", "D", "E", "F", "G", "H", "I", "J", "K", "L", "M",
     "N", "O", "P", "Q", "R", "S", "T", "U", "V", "W", "X", "Y", "Z"}

\* C11: the base name of a file TempFile creates is the prefix, "_" and
\* exactly 5 characters, each one of the 52 letters; randSeq(n) returns a
\* string of exactly n characters, each one of the 52 letters.
C11_TempFileNameFormat ==
    /\ (ret.op = "TempFile" /\ ret.err = NoErr) =>
          /\ Len(Last(ret.loc)) = Len(ret.prefix) + 1 + 5
          /\ \A k \in 1..5 : Letters[ret.draws[k] + 1] \in Alphabet
          /\ Last(ret.loc) =
                ret.prefix \o "_" \o StringOf([k \in 1..5 |-> Letters[ret.draws[k] + 1]])
    /\ ret.op = "randSeq" =>
          /\ Len(ret.runes) = ret.n
          /\ \A k \in DOMAIN ret.runes : ret.runes[k] \in Alphabet
          /\ ret.str = StringOf(ret.runes)
          /\ Len(ret.str) = ret.n

\* A TempFile has created its file, the suffix drawn holding a small and a
\* capital letter.
C11_Witness ==
    /\ ret.op = "TempFile"
    /\ ret.err = NoErr
    /\ ret.loc \in files
    /\ ret.draws[1] = 0
    /\ ret.draws[5] = 51
    /\ Last(ret.loc) = "x_aaaaZ"

\* The directory of the adapter i that the path string dir names.
DirLoc(i, dir) == StatResult(adapters[i].fs, Clean(dir)).loc

\* C10: TempFile(dir, prefix) creates its file directly inside dir when dir
\* is not empty, and directly inside the inner TempDir() when it is.
C10_TempFileDirectory ==
    (ret.op = "TempFile" /\ ret.err = NoErr) =>
        /\ ret.loc \in files
        /\ Front(ret.loc) =
              DirLoc(ret.ad, IF ret.dir = EmptyPath THEN TempDir ELSE ret.dir)

\* A TempFile with a directory that is not the temporary directory has
\* created its file there.
C10_Witness ==
    /\ ret.op = "TempFile"
    /\ ret.err = NoErr
    /\ ret.dir # EmptyPath
    /\ Front(ret.loc) # DirLoc(ret.ad, TempDir)
    /\ Front(ret.loc) = DirLoc(ret.ad, ret.dir)

\* Callers whose TempFile has returned a file.
Done == {c \in Callers : pc[c] = "done"}

\* C12: callers of TempFile with the same directory and prefix, at the same
\* time or one after the other, never choose the same file: the files of
\* any two calls that returned are different.
C12_TempFileUnique ==
    \A c1 \in Done, c2 \in Done : c1 # c2 => made[c1] # made[c2]

\* Callers that are past initRNG.
PastInit == {c \in Callers : pc[c] \in {"draw", "intn", "create", "done", "panic"}}

\* C15: the random source is created and seeded once only, however many
\* callers race on the first use; every caller draws from that one source;
\* it is never replaced.
C15_RNGInitOnce ==
    /\ rng.made <= 1
    /\ PastInit # {} => (rng.made = 1 /\ rng.src = 1 /\ once = "done")
    /\ rng.src = rng.made

\* Two callers are drawing from the one source, the second having arrived
\* at initRNG while the first was still to seed it.
C15_Witness ==
    /\ \E c1 \in Callers, c2 \in Callers : c1 # c2 /\ pc[c1] = "intn" /\ pc[c2] = "intn"
    /\ rng.made = 1
    /\ rng.src = 1

\* C16: the draws from the shared source are serialised: no two callers are
\* inside a draw at the same time.
C16_DrawsSerialised == Cardinality(rng.inside) <= 1

\* The create call a TempFile that returned r made on the inner filesystem,
\* worked out in the state the call started in.
InnerCreate(r) ==
    FsCreate(adapters[r.ad].fs,
             Join(IF r.dir = EmptyPath THEN TempDir ELSE r.dir,
                  NameOf(r.prefix \o "_"
                           \o StringOf([k \in 1..SuffixLen |-> Letters[r.draws[k] + 1]]))))

Creates(calls) == Cardinality({k \in DOMAIN calls : calls[k] = "Create"})

\* C13: a TempFile makes one create call on the inner filesystem, for one
\* name; when that create fails TempFile returns its error as it is and no
\* File, and leaves no file and no handle behind.
C13_TempFileNoRetry ==
    [][(ret'.op = "TempFile" /\ ret.op = "none" /\ ~adapters[ret'.ad].fs.nil) =>
          /\ Creates(ret'.calls) = 1
          /\ ret'.err = InnerCreate(ret').err
          /\ InnerCreate(ret').err # NoErr =>
                /\ ret'.h = 0
                /\ handles' = handles
                /\ files' = files]_vars

\* A TempFile in a directory that does not exist has returned the error of
\* its one create and no File.
C13_Witness ==
    /\ ret.op = "TempFile"
    /\ ret.err = ErrNotExist
    /\ ret.calls = <<"Create">>
    /\ ret.h = 0
    /\ handles = <<>>

\* C14: the file a TempFile creates is asked for with the owner's read and
\* write bits at most (0600): no group or other bit.
C14_TempFilePrivate ==
    (ret.op = "TempFile" /\ ret.err = NoErr) => ret.perm \subseteq Perm0600

\* The callers to whom Lock on f has returned and who have not unlocked it.
Holders(f) == {c \in Callers : f \in holds[c]}

\* C17: Lock and Unlock return a nil error; from a caller's return from
\* Lock on a File to its Unlock, Lock on that File returns to no other
\* caller; and Lock on a File whose own mutex is free returns whatever other
\* Files are locked.
C17_LockMutualExclusion ==
    /\ fret.op \in {"Lock", "Unlock"} => fret.err = NilErr
    /\ \A f \in FileIds :
          /\ Cardinality(Holders(f)) <= 1
          /\ mu[f] <=> Holders(f) # {}
          /\ \A c \in Callers :
                /\ Holders(f) # {} => ~ENABLED FileLock(c, f)
                /\ Holders(f) = {} => ENABLED FileLock(c, f)

\* One caller holds the lock of File 1 and the other has just been given
\* the lock of File 2.
C17_Witness ==
    /\ fret.op = "Lock"
    /\ fret.by = 2
    /\ fret.file = 2
    /\ fret.err = NilErr
    /\ Holders(1) = {1}
    /\ Holders(2) = {2}

IOMethods == {"Name", "Write", "Read", "ReadAt", "WriteAt", "Seek", "Truncate", "Close"}

\* Each of the methods can return to c on f now (a Write, as far as the file
\* may grow).
Proceeds(c, f) ==
    /\ ENABLED FileNameOf(c, f)
    /\ ENABLED FileRead(c, f, 1)
    /\ inner[f].off + 1 <= MaxSize => ENABLED FileWrite(c, f, 1)
    /\ ENABLED FileReadAt(c, f, 1, 0)
    /\ ENABLED FileWriteAt(c, f, 1, 0)
    /\ ENABLED FileSeek(c, f, 0)
    /\ ENABLED FileTruncate(c, f, 0)
    /\ ENABLED FileClose(c, f)

Delegated == IOMethods \ {"Name"}

C20_ReadReturnsEOF ==
    (fret.op = "Read" /\ fret.in = EOF) => fret.err = EOF

C30_RNGReadyAtDraw ==
    \A c \in Callers :
        (pc[c] \in {"draw", "intn"} \/ c \in rng.inside \/ buf[c] # <<>>) =>
            (rng.src # 0 /\ once = "done")

\* One caller is inside its last draw while the other, past initRNG, has
\* not drawn yet: both of them found the source created.
C30_Witness ==
    \E c1 \in Callers, c2 \in Callers :
        /\ c1 # c2
        /\ pc[c1] = "draw"
        /\ buf[c1] = <<>>
        /\ pc[c2] = "intn"
        /\ Len(buf[c2]) = SuffixLen - 1
        /\ rng.src = 1

C26_WrapperDepthOne ==
    \A i \in DOMAIN adapters : adapters[i].ok => Len(adapters[i].fs.chain) = 1

\* C21: reading a file from its start until the end of the file, through a
\* File that Open returned, returns exactly the bytes the file holds (those
\* written through the File of Create before its Close) and no error.
C21_WriteReadRoundTrip ==
    (/\ ret.op = "ReadAll"
     /\ ret.n = 0
     /\ ret.loc \in files
     /\ handles[ret.h].open
     /\ handles[ret.h].acc = "r") =>
        /\ ret.data = Values(content[ret.loc])
        /\ ret.ferr = NilErr

\* The bytes io.ReadAll returns are those of the file, whatever error comes
\* with them.
RoundTripData ==
    (/\ ret.op = "ReadAll"
     /\ ret.n = 0
     /\ ret.loc \in files
     /\ handles[ret.h].open
     /\ handles[ret.h].acc = "r") =>
        ret.data = Values(content[ret.loc])

ExclCreate == {"O_CREATE", "O_EXCL"}

\* The handles on loc.
HandlesOn(loc) == {h \in DOMAIN handles : handles[h].loc = loc}

\* The handles that wrote the bytes of the file at loc.
Writers(loc) == {content[loc][k].by : k \in DOMAIN content[loc]}

OpenOps == {"Create", "Open", "OpenFile", "TempFile"}

\* The inner call of an opening operation that returned r, worked out in the
\* state the operation started in.
InnerOpened(r) ==
    CASE r.op = "Create" -> FsCreate(adapters[r.ad].fs, r.name)
      [] r.op = "Open" -> FsOpen(adapters[r.ad].fs, r.name)
      [] r.op = "OpenFile" -> FsOpenFile(adapters[r.ad].fs, r.name, r.flag)
      [] r.op = "TempFile" -> InnerCreate(r)

\* C25: Create, Open, OpenFile and TempFile return a File exactly when their
\* inner open or create succeeded, and then with a nil error and around the
\* handle the inner call returned; when it failed they return no File and
\* the error of the inner call.
C25_HandleWrapping ==
    [][(ret'.op \in OpenOps /\ ~adapters[ret'.ad].fs.nil) =>
          /\ ret'.h # 0 <=> InnerOpened(ret').err = NoErr
          /\ ret'.h # 0 <=> ret'.err = NoErr
          /\ InnerOpened(ret').err = NoErr =>
                /\ ret'.h = Len(handles) + 1
                /\ handles' = Append(handles, handles'[ret'.h])
                /\ handles'[ret'.h].loc = InnerOpened(ret').loc
                /\ handles'[ret'.h].open
                /\ ret'.loc = InnerOpened(ret').loc
          /\ InnerOpened(ret').err # NoErr =>
                /\ ret'.err = InnerOpened(ret').err
                /\ handles' = handles]_vars

\* An Open has returned the second File, around a handle on the file it
\* named, after an OpenFile that failed returned none.
C25_Witness ==
    /\ ret.op = "Open"
    /\ ret.err = NoErr
    /\ ret.h = 2
    /\ handles[2].loc = ret.loc
    /\ handles[2].open
    /\ ExclCreate \subseteq handles[1].flag

\* C27: the inner handles opened and not closed are those of the Files
\* handed out and not closed: each Create, Open, OpenFile or TempFile that
\* succeeds adds one, its own; a Close closes the handle of its File with
\* one inner Close; no other operation opens, closes or leaves a handle.
C27_HandleAccounting ==
    [][/\ (ret'.op \in OpenOps /\ ret'.h # 0) =>
             /\ ret'.h = Len(handles) + 1
             /\ handles' = Append(handles, handles'[ret'.h])
             /\ OpenHandles' = OpenHandles \cup {ret'.h}
       /\ (ret'.op \in OpenOps /\ ret'.h = 0) => handles' = handles
       /\ ret'.op = "Close" =>
             /\ ret'.calls = <<"Close">>
             /\ handles' = [handles EXCEPT ![ret'.h].open = FALSE]
             /\ OpenHandles' = OpenHandles \ {ret'.h}
       /\ ret'.op \notin OpenOps \cup {"Close"} =>
             /\ Len(handles') = Len(handles)
             /\ OpenHandles' = OpenHandles
             /\ \A h \in DOMAIN handles : handles'[h].loc = handles[h].loc]_vars

\* A ReadDir has returned its entries while one File is open and another
\* is closed: it left the handles as they were.
C27_Witness ==
    /\ ret.op = "ReadDir"
    /\ ret.err = NoErr
    /\ ret.calls = <<"Open", "Readdir", "Close">>
    /\ Len(handles) = 2
    /\ OpenHandles = {2}

C24_NoErrorSwallowed ==
    (ret.op \in OpenOps \cup {"Stat", "ReadDir", "Chroot"} /\ ret.closeErr # NoErr) =>
        ret.err # NoErr

====
